---- MODULE Spec2Model ----
\* A model of prometheus_collector/collector.py: the prompt scanner
\* (wait_for_prompt), the response parser inside
\* fetch_and_update_metrics_via_telnet, the telnet session itself and the
\* poll loop of main.
\*
\* Text is a sequence of one-character strings, so that substring search,
\* endswith, lower() and the regular expressions are computed, not assumed.
EXTENDS Integers, Sequences, FiniteSets, TLC

VARIABLES
    opc,      \* main: "polling", "sleeping", or "crashed" (an exception left main)
    idx,      \* main: index i of the device being polled (range(len(args.hostname)))
    pc,       \* the session coroutine's position (the await it is suspended at)
    ci,       \* position in the commands table of the command in flight (0: none)
    conn,     \* the transport of this session: "none", "open", "closed"; "unclosed"
              \* while the transport an earlier session left open still exists
    result,   \* the text the most recent scan returned, while the code still reads it
    wlog,     \* what this session has written to the connection, in order
    parsed,   \* how many command results this session has handed to the parser
    pubs,     \* pubs[c]: observations published for command c in this session
    gauges,   \* the labelled gauges: gauges[host][c], NoValue until first set
    excSeen,  \* an exception has been raised after the connection was opened
    outcome,  \* how the session ended ("" while it runs)
    live,     \* the diagnostics the polled firmware answers with a reading
    scan      \* the state of a wait_for_prompt call that is stepped read by read

vars == <<opc, idx, pc, ci, conn, result, wlog, parsed, pubs, gauges,
          excSeen, outcome, live, scan>>

----------------------------------------------------------------------------
\* Bounds of the model (not program constants).

\* Longest buffer a stepped scan may accumulate, in characters.
MaxBuf == 3
\* Longest free text handed to the numeric parsers, in characters.
MaxNumLen == 4
\* Most read events (chunk, silence, EOF, error) the device schedules per scan
\* of a session before it falls silent.
MaxEvents == 1
\* Most diagnostics a firmware answers with a reading.
MaxLive == 1

----------------------------------------------------------------------------
\* Program constants.

\* wait_for_prompt(reader, timeout=10) for the login, password and shell scans.
AuthTimeout == 10
\* execute_telnet_command(..., timeout=30).
CommandTimeout == 30
\* asyncio.wait_for(reader.read(1024), timeout=1).
SubTimeout == 1

----------------------------------------------------------------------------
\* Text helpers.

Min(S) == CHOOSE x \in S : \A y \in S : x <= y
Max(S) == CHOOSE x \in S : \A y \in S : x >= y

RECURSIVE SeqsUpTo(_, _)
\* All sequences over alphabet A of length 0..n.
SeqsUpTo(A, n) ==
    IF n = 0 THEN {<<>>}
    ELSE LET shorter == SeqsUpTo(A, n - 1)
         IN  shorter \cup {Append(s, a) : s \in {t \in shorter : Len(t) = n - 1}, a \in A}

RECURSIVE Concat(_)
\* The concatenation of a sequence of texts.
Concat(ss) == IF ss = <<>> THEN <<>> ELSE Head(ss) \o Concat(Tail(ss))

UpperLetters == <<"A","B","C","D","E","F","G","H","I","J","K","L","M",
                  "N","O","P","Q","R","S","T","U","V","W","X","Y","Z">>
LowerLetters == <<"a","b","c","d","e","f","g","h","i","j","k","l","m",
                  "n","o","p","q","r","s","t","u","v","w","x","y","z">>

\* str.lower() on one character.
LowerChar(c) ==
    IF \E k \in 1..26 : UpperLetters[k] = c
    THEN LowerLetters[CHOOSE k \in 1..26 : UpperLetters[k] = c]
    ELSE c

\* str.lower()
Lower(t) == [k \in 1..Len(t) |-> LowerChar(t[k])]

\* needle in hay
Contains(hay, needle) ==
    \E s \in 1..(Len(hay) - Len(needle) + 1) :
        SubSeq(hay, s, s + Len(needle) - 1) = needle

\* hay.endswith(suffix)
EndsWith(hay, suffix) ==
    /\ Len(hay) >= Len(suffix)
    /\ SubSeq(hay, Len(hay) - Len(suffix) + 1, Len(hay)) = suffix

----------------------------------------------------------------------------
\* The command table and the ONU state table.

\* A table iterated in sorted key order instead of insertion order.
CommandsBugSorted == <<"diag gpon get onu-state",
                       "diag pon get transceiver bias-current",
                       "diag pon get transceiver rx-power",
                       "diag pon get transceiver temperature",
                       "diag pon get transceiver tx-power",
                       "diag pon get transceiver voltage">>

\* The keys of the commands dict, in insertion order (the order items() yields).
Commands == <<"diag pon get transceiver bias-current",
              "diag pon get transceiver rx-power",
              "diag pon get transceiver temperature",
              "diag pon get transceiver tx-power",
              "diag pon get transceiver voltage",
              "diag gpon get onu-state">>

\* The gauge each command is paired with in the commands dict.
GaugeOf == <<"gpon_bias_current_mA", "gpon_rx_power_dbm", "gpon_temperature_celsius",
             "gpon_tx_power_dbm", "gpon_voltage_volts", "gpon_onu_state">>

NumCommands == Len(Commands)
CmdIdx == 1..NumCommands

\* command in ['diag pon get transceiver rx-power', 'diag pon get transceiver tx-power']
IsSignedCommand(command) ==
    command \in {"diag pon get transceiver rx-power", "diag pon get transceiver tx-power"}

\* command.startswith('diag gpon get onu-state'): of the six table keys only
\* the last one starts with that text.
IsOnuCommand(command) == command = "diag gpon get onu-state"

\* onu_state_mapping: the keys as written in the source. The fifth key is the
\* letter O followed by 5.
OnuKeys == << <<"0","1">>, <<"0","2">>, <<"0","3">>, <<"0","4">>,
              <<"O","5">>, <<"0","6">>, <<"0","7">> >>

\* onu_state_mapping.get(code, 0)
OnuStateGet(code) ==
    IF \E k \in 1..Len(OnuKeys) : OnuKeys[k] = code
    THEN CHOOSE k \in 1..Len(OnuKeys) : OnuKeys[k] = code
    ELSE 0

----------------------------------------------------------------------------
\* The regular expressions of the response parser.

Digits == {"0","1","2","3","4","5","6","7","8","9"}
DigitSeq == <<"0","1","2","3","4","5","6","7","8","9">>
DigitVal(c) == (CHOOSE k \in 1..10 : DigitSeq[k] = c) - 1

\* The index of the last character of the longest run of digits that starts
\* at p (p - 1 when text[p] is no digit): what a greedy \d+ consumes.
DigitRunEnd(text, p) ==
    LET ends == {e \in p..Len(text) : \A k \in p..e : text[k] \in Digits}
    IN  IF ends = {} THEN p - 1 ELSE Max(ends)

\* The end of the match of -?\d+\.\d+ (signed) or \d+\.\d+ anchored at s, or
\* 0 when the pattern does not match there. Giving back digits or the sign
\* never helps: after a shorter run of digits comes a digit, not the dot.
ReMatchAt(text, s, signed) ==
    LET p  == IF signed /\ text[s] = "-" THEN s + 1 ELSE s
        d1 == DigitRunEnd(text, p)
    IN  IF d1 < p \/ d1 + 1 > Len(text) THEN 0
        ELSE IF text[d1 + 1] # "." THEN 0
        ELSE LET d2 == DigitRunEnd(text, d1 + 2)
             IN  IF d2 < d1 + 2 THEN 0 ELSE d2

NoMatch == [found |-> FALSE]

\* A search that keeps the last match of the text instead of the first.
ReSearchNumberBugLast(text, signed) ==
    LET starts == {s \in 1..Len(text) : ReMatchAt(text, s, signed) > 0}
    IN  IF starts = {} THEN NoMatch
        ELSE LET last == Max(starts)
             IN  [found |-> TRUE,
                  group |-> SubSeq(text, last, ReMatchAt(text, last, signed))]

\* re.search(r'(-?\d+\.\d+)', text) / re.search(r'(\d+\.\d+)', text):
\* the match at the leftmost position where the pattern matches; group(0).
ReSearchNumber(text, signed) ==
    LET starts == {s \in 1..Len(text) : ReMatchAt(text, s, signed) > 0}
    IN  IF starts = {} THEN NoMatch
        ELSE LET first == Min(starts)
             IN  [found |-> TRUE,
                  group |-> SubSeq(text, first, ReMatchAt(text, first, signed))]

OnuMarker == <<"O","N","U"," ","s","t","a","t","e",":"," ">>

\* re.search(r'ONU state: (.*)', text): the leftmost marker; group(1) is what
\* follows it up to, not including, the next "\n" (. matches anything else,
\* a carriage return included).
ReSearchOnu(text) ==
    LET n      == Len(OnuMarker)
        starts == {s \in 1..(Len(text) - n + 1) : SubSeq(text, s, s + n - 1) = OnuMarker}
    IN  IF starts = {} THEN NoMatch
        ELSE LET b   == Min(starts) + n
                 nls == {k \in b..Len(text) : text[k] = "\n"}
                 e   == IF nls = {} THEN Len(text) ELSE Min(nls) - 1
             IN  [found |-> TRUE, group |-> SubSeq(text, b, e)]

RECURSIVE DigitsValue(_)
\* The number a run of decimal digits denotes.
DigitsValue(ds) ==
    IF ds = <<>> THEN 0
    ELSE 10 * DigitsValue(SubSeq(ds, 1, Len(ds) - 1)) + DigitVal(ds[Len(ds)])

RECURSIVE StripTrailingZeros(_)
StripTrailingZeros(ds) ==
    IF ds # <<>> /\ ds[Len(ds)] = "0"
    THEN StripTrailingZeros(SubSeq(ds, 1, Len(ds) - 1))
    ELSE ds

\* float(group) for a text matched by -?\d+\.\d+: the number it denotes, as
\* sign, integer part and fraction digits. Leading zeros of the integer part
\* and trailing zeros of the fraction do not change the number, and -0.0
\* compares equal to 0.0.
Float(g) ==
    LET neg  == g[1] = "-"
        body == IF neg THEN Tail(g) ELSE g
        dot  == CHOOSE k \in 1..Len(body) : body[k] = "."
        ip   == DigitsValue(SubSeq(body, 1, dot - 1))
        fp   == StripTrailingZeros(SubSeq(body, dot + 1, Len(body)))
    IN  [neg |-> neg /\ ~(ip = 0 /\ fp = <<>>), ip |-> ip, fp |-> fp]

\* A parser that sets a placeholder when nothing matches.
ParseBugPublishOnMiss(command, text) ==
    IF IsOnuCommand(command)
    THEN LET m == ReSearchOnu(text)
         IN  IF m.found THEN <<OnuStateGet(m.group)>> ELSE <<0>>
    ELSE LET m == ReSearchNumber(text, IsSignedCommand(command))
         IN  IF m.found THEN <<Float(m.group)>> ELSE <<Float(<<"0",".","0">>)>>

\* A parser that looks the state code up without the default of get().
ParseBugOnuOmitsUnknown(command, text) ==
    IF IsOnuCommand(command)
    THEN LET m == ReSearchOnu(text)
         IN  IF m.found /\ OnuStateGet(m.group) # 0 THEN <<OnuStateGet(m.group)>> ELSE <<>>
    ELSE LET m == ReSearchNumber(text, IsSignedCommand(command))
         IN  IF m.found THEN <<Float(m.group)>> ELSE <<>>

\* The value the parser hands to gauge.labels(ip=hostname).set(...) for the
\* response to a command: <<value>>, or <<>> when it sets nothing.
ParseResponse(command, text) ==
    IF IsSignedCommand(command)
    THEN LET value == ReSearchNumber(text, TRUE)
         IN  IF value.found THEN <<Float(value.group)>> ELSE <<>>
    ELSE IF IsOnuCommand(command)
    THEN LET state_code == ReSearchOnu(text)
         IN  IF state_code.found THEN <<OnuStateGet(state_code.group)>> ELSE <<>>
    ELSE LET value == ReSearchNumber(text, FALSE)
         IN  IF value.found THEN <<Float(value.group)>> ELSE <<>>

----------------------------------------------------------------------------
\* The prompt scanner, wait_for_prompt.
\*
\* A read event is what one `await asyncio.wait_for(reader.read(1024), 1)`
\* does: it returns a chunk (kind "data"), returns nothing because the stream
\* is at EOF ("eof"), runs into the one second sub-timeout ("silence") or
\* raises ("error"). telnetlib3.open_connection is called with its default
\* encoding, so the reader yields str and the bytes branch is not taken.
\* elapsed is time.time() - start_time in whole seconds: a read that returns
\* data moves it by dt (0 or 1), a sub-timeout by SubTimeout.

Ev(kind, chunk, dt) == [kind |-> kind, chunk |-> chunk, dt |-> dt]
Silence == Ev("silence", <<>>, SubTimeout)
Eof     == Ev("eof", <<>>, 0)
ReadError == Ev("error", <<>>, 0)

\* buffer = "", start_time = time.time()
ScanStart(timeout) ==
    [buffer |-> <<>>, elapsed |-> 0, timeout |-> timeout, status |-> "running",
     chunks |-> <<>>, last |-> "none"]

\* A scanner that knows the terminators only with their trailing space.
EndsWithPromptBugSpaceOnly(buffer) ==
    \/ EndsWith(buffer, <<"$", " ">>)
    \/ EndsWith(buffer, <<"#", " ">>)
    \/ EndsWith(buffer, <<">", " ">>)

\* The prompt test of wait_for_prompt.
EndsWithPrompt(buffer) ==
    \/ EndsWith(buffer, <<"$", " ">>)
    \/ EndsWith(buffer, <<"#", " ">>)
    \/ EndsWith(buffer, <<">", " ">>)
    \/ EndsWith(buffer, <<"$">>)
    \/ EndsWith(buffer, <<"#">>)
    \/ EndsWith(buffer, <<">">>)

\* A scanner without `except asyncio.TimeoutError: continue`: the sub-timeout
\* lands in the outer except.
ScanIterBugSilenceEnds(s, ev) ==
    IF ~(s.elapsed < s.timeout) THEN [s EXCEPT !.status = "timeout"]
    ELSE IF ev.kind = "error"
    THEN [s EXCEPT !.status = "error", !.last = ev.kind]
    ELSE IF ev.kind = "silence"
    THEN [s EXCEPT !.status = "error", !.elapsed = @ + ev.dt, !.last = ev.kind]
    ELSE IF ev.kind = "eof"
    THEN [s EXCEPT !.status = "eof", !.last = ev.kind]
    ELSE LET buffer == s.buffer \o ev.chunk
         IN  [s EXCEPT !.buffer = buffer,
                       !.chunks = Append(@, ev.chunk),
                       !.elapsed = @ + ev.dt,
                       !.last = ev.kind,
                       !.status = IF EndsWithPrompt(buffer) THEN "prompt" ELSE "running"]

\* A scanner without `if not chunk: break`: an empty read is appended like any
\* chunk and the loop waits on.
ScanIterBugEofWaits(s, ev) ==
    IF ~(s.elapsed < s.timeout) THEN [s EXCEPT !.status = "timeout"]
    ELSE IF ev.kind = "error"
    THEN [s EXCEPT !.status = "error", !.last = ev.kind]
    ELSE IF ev.kind = "silence"
    THEN [s EXCEPT !.elapsed = @ + ev.dt, !.last = ev.kind]
    ELSE IF ev.kind = "eof"
    THEN [s EXCEPT !.elapsed = @ + SubTimeout, !.last = ev.kind]
    ELSE LET buffer == s.buffer \o ev.chunk
         IN  [s EXCEPT !.buffer = buffer,
                       !.chunks = Append(@, ev.chunk),
                       !.elapsed = @ + ev.dt,
                       !.last = ev.kind,
                       !.status = IF EndsWithPrompt(buffer) THEN "prompt" ELSE "running"]

\* One pass of `while time.time() - start_time < timeout:` with the outcome ev
\* of its read. status says how the call ended: "prompt" (return buffer inside
\* the loop), "timeout" (the loop condition failed), "eof" (break), "error"
\* (the outer except), or "running". chunks and last record the chunks read and
\* the outcome of the latest read.
ScanIter(s, ev) ==
    IF ~(s.elapsed < s.timeout) THEN [s EXCEPT !.status = "timeout"]
    ELSE IF ev.kind = "error"
    THEN [s EXCEPT !.status = "error", !.last = ev.kind]
    ELSE IF ev.kind = "silence"
    THEN [s EXCEPT !.elapsed = @ + ev.dt, !.last = ev.kind]
    ELSE IF ev.kind = "eof"
    THEN [s EXCEPT !.status = "eof", !.last = ev.kind]
    ELSE LET buffer == s.buffer \o ev.chunk
         IN  [s EXCEPT !.buffer = buffer,
                       !.chunks = Append(@, ev.chunk),
                       !.elapsed = @ + ev.dt,
                       !.last = ev.kind,
                       !.status = IF EndsWithPrompt(buffer) THEN "prompt" ELSE "running"]

\* What the call returns: the buffer, or "" from `except Exception`.
Returned(s) == IF s.status = "error" THEN <<>> ELSE s.buffer

RECURSIVE RunScan(_, _)
\* The whole call against a device that produces the read events of sched and
\* is silent afterwards.
RunScan(s, sched) ==
    IF s.status # "running" THEN s
    ELSE IF sched = <<>> THEN RunScan(ScanIter(s, Silence), sched)
    ELSE RunScan(ScanIter(s, Head(sched)), Tail(sched))

\* await wait_for_prompt(reader, timeout)
wait_for_prompt(sched, timeout) == Returned(RunScan(ScanStart(timeout), sched))

----------------------------------------------------------------------------
\* Configuration and environment of the session.

\* args.hostname[i], args.port[i], args.user[i], args.password[i]: three
\* descriptors, two of them on the same host.
Devices == << [hostname |-> "10.0.0.1", port |-> 23,   user |-> "admin", password |-> "pw1"],
              [hostname |-> "10.0.0.2", port |-> 23,   user |-> "admin", password |-> "pw2"],
              [hostname |-> "10.0.0.1", port |-> 2323, user |-> "root",  password |-> "pw3"] >>

NumDevices == Len(Devices)
Hosts == {Devices[d].hostname : d \in 1..NumDevices}

\* What the device may print.
TxtLogin    == <<"l","o","g","i","n",":"," ">>
TxtUsername == <<"U","s","e","r","n","a","m","e",":"," ">>
TxtPassword == <<"P","a","s","s","w","o","r","d",":"," ">>
TxtShell    == <<">"," ">>
CommonTexts == {TxtLogin, TxtUsername, TxtPassword, TxtShell}

\* The readings a firmware prints for command c: c.5 for the transceiver
\* diagnostics (negative for the two power levels), a state line for the ONU.
Readings(c) ==
    IF IsOnuCommand(Commands[c])
    THEN {OnuMarker \o <<"0","3","\n",">"," ">>, OnuMarker \o <<"0","5","\n",">"," ">>}
    ELSE IF IsSignedCommand(Commands[c])
    THEN {<<"-", DigitSeq[c + 1], ".", "5", "\n", ">", " ">>}
    ELSE {<<DigitSeq[c + 1], ".", "5", "\n", ">", " ">>}

\* The read events of a session scan over the texts the device may print:
\* chunks arrive without delay, and what the device does not send is silence.
SessionEvents(texts) == {Ev("data", t, 0) : t \in texts} \cup {Eof, ReadError}

\* What `await wait_for_prompt(reader, timeout)` can return in a session, and
\* whether an exception was raised inside it, over every schedule of at most
\* MaxEvents read events.
ScanOutcomes(texts, timeout) ==
    {LET r == RunScan(ScanStart(timeout), sched)
     IN  [text |-> Returned(r), raised |-> r.status = "error"] :
        sched \in SeqsUpTo(SessionEvents(texts), MaxEvents)}

\* The outcomes of the login, password and shell scans: the device prints
\* prompts.
AuthOutcomes == ScanOutcomes(CommonTexts, AuthTimeout)

\* The outcomes of the scan for command c: the device prints prompts, and the
\* reading for c when the firmware answers it.
CmdOutcomes ==
    [c \in CmdIdx |-> [answered \in BOOLEAN |->
        ScanOutcomes(CommonTexts \cup (IF answered THEN Readings(c) ELSE {}),
                     CommandTimeout)]]

\* The exceptions of the model, all subclasses of Exception.
ExceptionClasses == {"TimeoutError", "OSError", "UnicodeEncodeError"}

\* The except clauses of fetch_and_update_metrics_via_telnet: how the
\* coroutine ends when e is raised in its try block.
FetchHandler(e) ==
    IF e = "TimeoutError" THEN "timeout"
    ELSE IF e \in ExceptionClasses THEN "error"
    ELSE "raised"

\* A sweep that stays on the device it has just polled.
NextDeviceBugRetry(i) == i

\* The next value of i in `for i in range(len(args.hostname))`, 0 when the
\* sweep is over.
NextDevice(i) == IF i < NumDevices THEN i + 1 ELSE 0

NoValue == <<>>

\* A sink that clears the series when the parser produced nothing.
GaugesAfterBugClears(g, d, c, obs) == [g EXCEPT ![Devices[d].hostname][c] = obs]

\* gauge.labels(ip=hostname).set(value) for each value the parser produced.
GaugesAfter(g, d, c, obs) ==
    IF obs = <<>> THEN g ELSE [g EXCEPT ![Devices[d].hostname][c] = obs]

Line(what, text) == [what |-> what, text |-> text]

\* The except clause of fetch_and_update_metrics_via_telnet_sync, reached by
\* what the coroutine lets through.
SyncHandler(e) == IF e \in ExceptionClasses THEN "wrapper_error" ELSE "crashed"

\* How a poll attempt ends when e is raised in the coroutine's try block.
SessionEnd(e) == IF FetchHandler(e) # "raised" THEN FetchHandler(e) ELSE SyncHandler(e)

----------------------------------------------------------------------------
\* The session: fetch_and_update_metrics_via_telnet, one action per await.

sessionVars == <<ci, conn, result, wlog, parsed, pubs, excSeen, outcome>>

\* The locals of a coroutine that has just been started. asyncio.run closes
\* the event loop, not the transports: one that no code path closed keeps its
\* socket until the garbage collector finds it, before or after the next
\* session starts.
FreshSession ==
    /\ ci' = 0
    /\ conn' \in (IF conn \in {"open", "unclosed"} THEN {"none", "unclosed"} ELSE {"none"})
    /\ result' = <<>>
    /\ wlog' = <<>>
    /\ parsed' = 0
    /\ pubs' = [c \in CmdIdx |-> 0]
    /\ excSeen' = FALSE
    /\ outcome' = ""

ScanIdle == [buffer |-> <<>>, elapsed |-> 0, timeout |-> 0, status |-> "idle",
             chunks |-> <<>>, last |-> "none"]

Init ==
    /\ opc = "polling"
    /\ idx = 1
    /\ pc = "connect"
    /\ ci = 0
    /\ conn = "none"
    /\ result = <<>>
    /\ wlog = <<>>
    /\ parsed = 0
    /\ pubs = [c \in CmdIdx |-> 0]
    /\ excSeen = FALSE
    /\ outcome = ""
    /\ gauges = [h \in Hosts |-> [c \in CmdIdx |-> NoValue]]
    /\ live \in {L \in SUBSET CmdIdx : Cardinality(L) <= MaxLive}
    /\ scan = ScanIdle

\* An exception e leaves the try block: no handler closes the writer.
Raise(e) ==
    /\ pc' = "done"
    /\ result' = <<>>
    /\ excSeen' = (excSeen \/ conn = "open" \/ conn = "closed")
    /\ outcome' = SessionEnd(e)

\* await asyncio.wait_for(telnetlib3.open_connection(hostname, port), 15) returns.
Connect ==
    /\ pc = "connect"
    /\ conn' = "open"
    /\ pc' = "scan_login"
    /\ UNCHANGED <<opc, idx, ci, result, wlog, parsed, pubs, gauges, excSeen, outcome, live, scan>>

\* A driver that goes on to the login scan although the open failed.
ConnectFailsBugScans(e) ==
    /\ pc = "connect"
    /\ pc' = "scan_login"
    /\ UNCHANGED <<opc, idx, ci, conn, result, wlog, parsed, pubs, gauges, excSeen,
                   outcome, live, scan>>

\* The connection is not opened: the 15 s timeout or a refusal.
ConnectFails(e) ==
    /\ pc = "connect"
    /\ Raise(e)
    /\ UNCHANGED <<opc, idx, ci, conn, wlog, parsed, pubs, gauges, live, scan>>

\* A scan of the session returns with outcome o: the text is kept for the
\* code that examines it.
ScanReturns(o) ==
    /\ result' = o.text
    /\ excSeen' = (excSeen \/ o.raised)

\* initial_response = await wait_for_prompt(reader, timeout=10)
ScanLogin(o) ==
    /\ pc = "scan_login"
    /\ ScanReturns(o)
    /\ pc' = "check_login"
    /\ UNCHANGED <<opc, idx, ci, conn, wlog, parsed, pubs, gauges, outcome, live, scan>>

\* 'login:' in initial_response.lower() or 'username:' in initial_response.lower()
HasLoginPrompt(text) ==
    \/ Contains(Lower(text), <<"l","o","g","i","n",":">>)
    \/ Contains(Lower(text), <<"u","s","e","r","n","a","m","e",":">>)

\* A driver that sends the password whatever the second scan returned.
HasPasswordPromptBugAny(text) == TRUE

\* 'password:' in password_response.lower()
HasPasswordPrompt(text) ==
    Contains(Lower(text), <<"p","a","s","s","w","o","r","d",":">>)

\* writer.write(username + '\r\n')
SendUsername ==
    /\ pc = "check_login"
    /\ HasLoginPrompt(result)
    /\ wlog' = Append(wlog, Line("username", Devices[idx].user))
    /\ pc' = "drain_user"
    /\ result' = <<>>
    /\ UNCHANGED <<opc, idx, ci, conn, parsed, pubs, gauges, excSeen, outcome, live, scan>>

\* writer.write(username + '\r\n') raises (the name cannot be encoded).
SendUsernameRaises ==
    /\ pc = "check_login"
    /\ HasLoginPrompt(result)
    /\ Raise("UnicodeEncodeError")
    /\ UNCHANGED <<opc, idx, ci, conn, wlog, parsed, pubs, gauges, live, scan>>

\* else: print("No login prompt received"); writer.close(); return
NoLoginPrompt ==
    /\ pc = "check_login"
    /\ ~HasLoginPrompt(result)
    /\ conn' = "closed"
    /\ pc' = "done"
    /\ outcome' = "no_login"
    /\ result' = <<>>
    /\ UNCHANGED <<opc, idx, ci, wlog, parsed, pubs, gauges, excSeen, live, scan>>

\* await writer.drain() after the username or the password returns.
AuthDrain ==
    /\ pc \in {"drain_user", "drain_pass"}
    /\ pc' = IF pc = "drain_user" THEN "scan_pass" ELSE "scan_shell"
    /\ UNCHANGED <<opc, idx, ci, conn, result, wlog, parsed, pubs, gauges, excSeen, outcome, live, scan>>

\* await writer.drain() after the username or the password raises (the
\* connection was lost).
AuthDrainRaises ==
    /\ pc \in {"drain_user", "drain_pass"}
    /\ Raise("OSError")
    /\ UNCHANGED <<opc, idx, ci, conn, wlog, parsed, pubs, gauges, live, scan>>

\* password_response = await wait_for_prompt(reader, timeout=10)
ScanPass(o) ==
    /\ pc = "scan_pass"
    /\ ScanReturns(o)
    /\ pc' = "check_pass"
    /\ UNCHANGED <<opc, idx, ci, conn, wlog, parsed, pubs, gauges, outcome, live, scan>>

\* writer.write(password + '\r\n')
SendPassword ==
    /\ pc = "check_pass"
    /\ HasPasswordPrompt(result)
    /\ wlog' = Append(wlog, Line("password", Devices[idx].password))
    /\ pc' = "drain_pass"
    /\ result' = <<>>
    /\ UNCHANGED <<opc, idx, ci, conn, parsed, pubs, gauges, excSeen, outcome, live, scan>>

\* writer.write(password + '\r\n') raises.
SendPasswordRaises ==
    /\ pc = "check_pass"
    /\ HasPasswordPrompt(result)
    /\ Raise("UnicodeEncodeError")
    /\ UNCHANGED <<opc, idx, ci, conn, wlog, parsed, pubs, gauges, live, scan>>

\* else: print("No password prompt received"); writer.close(); return
NoPasswordPrompt ==
    /\ pc = "check_pass"
    /\ ~HasPasswordPrompt(result)
    /\ conn' = "closed"
    /\ pc' = "done"
    /\ outcome' = "no_password"
    /\ result' = <<>>
    /\ UNCHANGED <<opc, idx, ci, wlog, parsed, pubs, gauges, excSeen, live, scan>>

\* execute_telnet_command up to its first await: writer.write(command + '\r\n').
WriteCommand(c) ==
    /\ wlog' = Append(wlog, Line("command", Commands[c]))
    /\ ci' = c
    /\ pc' = "drain_cmd"

\* A driver that runs the commands only when the third scan ended in a prompt,
\* and closes the connection otherwise.
ScanShellBugNeedsPrompt(o) ==
    /\ pc = "scan_shell"
    /\ excSeen' = (excSeen \/ o.raised)
    /\ result' = <<>>
    /\ IF EndsWithPrompt(o.text)
       THEN WriteCommand(1) /\ UNCHANGED <<conn, outcome>>
       ELSE /\ pc' = "done"
            /\ conn' = "closed"
            /\ outcome' = "no_shell"
            /\ UNCHANGED <<ci, wlog>>
    /\ UNCHANGED <<opc, idx, parsed, pubs, gauges, live, scan>>

\* shell_response = await wait_for_prompt(reader, timeout=10), then the first
\* pass of the for loop writes the first command.
ScanShell(o) ==
    /\ pc = "scan_shell"
    /\ excSeen' = (excSeen \/ o.raised)
    /\ result' = <<>>
    /\ WriteCommand(1)
    /\ UNCHANGED <<opc, idx, conn, parsed, pubs, gauges, outcome, live, scan>>

\* await writer.drain() in execute_telnet_command returns.
DrainCmd ==
    /\ pc = "drain_cmd"
    /\ pc' = "scan_cmd"
    /\ UNCHANGED <<opc, idx, ci, conn, result, wlog, parsed, pubs, gauges, excSeen, outcome, live, scan>>

\* await writer.drain() in execute_telnet_command raises: its except clause
\* returns "" and the for loop goes on.
DrainCmdRaises ==
    /\ pc = "drain_cmd"
    /\ result' = <<>>
    /\ excSeen' = TRUE
    /\ pc' = "parse"
    /\ UNCHANGED <<opc, idx, ci, conn, wlog, parsed, pubs, gauges, outcome, live, scan>>

\* response = await wait_for_prompt(reader, timeout); return response
ScanCmd ==
    /\ pc = "scan_cmd"
    /\ \E o \in CmdOutcomes[ci][(ci \in live)] : ScanReturns(o)
    /\ pc' = "parse"
    /\ UNCHANGED <<opc, idx, ci, conn, wlog, parsed, pubs, gauges, outcome, live, scan>>

\* The results execute_telnet_command can return for command c in a session.
CmdTexts(c) ==
    {<<>>} \cup {o.text : o \in CmdOutcomes[c][TRUE] \cup CmdOutcomes[c][FALSE]}

\* ParseResponse on those results, evaluated once.
ParseOf == [c \in CmdIdx |-> [t \in CmdTexts(c) |-> ParseResponse(Commands[c], t)]]

\* The body of the for loop after execute_telnet_command has returned: parse
\* the result and set the gauge; then the next pass writes the next command,
\* or, after the last one, writer.close() and await writer.wait_closed().
Parse ==
    /\ pc = "parse"
    /\ LET obs == IF result \in DOMAIN ParseOf[ci]
                  THEN ParseOf[ci][result]
                  ELSE ParseResponse(Commands[ci], result)
       IN  /\ gauges' = GaugesAfter(gauges, idx, ci, obs)
           /\ pubs' = [pubs EXCEPT ![ci] = @ + Len(obs)]
    /\ parsed' = parsed + 1
    /\ IF ci < NumCommands
       THEN /\ WriteCommand(ci + 1)
            /\ conn' = conn
       ELSE /\ conn' = "closed"
            /\ pc' = "wait_closed"
            /\ UNCHANGED <<ci, wlog>>
    /\ result' = <<>>
    /\ UNCHANGED <<opc, idx, excSeen, outcome, live, scan>>

\* await writer.wait_closed() returns: "Successfully collected metrics".
WaitClosed ==
    /\ pc = "wait_closed"
    /\ pc' = "done"
    /\ outcome' = "success"
    /\ UNCHANGED <<opc, idx, ci, conn, result, wlog, parsed, pubs, gauges, excSeen, live, scan>>

\* await writer.wait_closed() raises.
WaitClosedRaises ==
    /\ pc = "wait_closed"
    /\ Raise("OSError")
    /\ UNCHANGED <<opc, idx, ci, conn, wlog, parsed, pubs, gauges, live, scan>>

----------------------------------------------------------------------------
\* The poll loop of main.

\* asyncio.run returns to fetch_and_update_metrics_via_telnet_sync and the
\* for loop of main starts the poll of the next device, or the sweep is over
\* and main sleeps.
Advance ==
    /\ opc = "polling"
    /\ pc = "done"
    /\ IF outcome = "crashed"
       THEN /\ opc' = "crashed"
            /\ UNCHANGED <<idx, pc, sessionVars>>
       ELSE /\ FreshSession
            /\ IF NextDevice(idx) # 0
               THEN /\ idx' = NextDevice(idx)
                    /\ pc' = "connect"
                    /\ opc' = opc
               ELSE /\ opc' = "sleeping"
                    /\ pc' = "idle"
                    /\ idx' = idx
    /\ UNCHANGED <<gauges, live, scan>>

\* time.sleep(args.fetch_interval) returns: the next sweep starts.
Wake ==
    /\ opc = "sleeping"
    /\ opc' = "polling"
    /\ idx' = 1
    /\ pc' = "connect"
    /\ UNCHANGED <<sessionVars, gauges, live, scan>>

Next ==
    \/ Connect
    \/ \E e \in {"TimeoutError", "OSError"} : ConnectFails(e)
    \/ \E o \in AuthOutcomes : ScanLogin(o)
    \/ SendUsername
    \/ SendUsernameRaises
    \/ NoLoginPrompt
    \/ AuthDrain
    \/ AuthDrainRaises
    \/ \E o \in AuthOutcomes : ScanPass(o)
    \/ SendPassword
    \/ SendPasswordRaises
    \/ NoPasswordPrompt
    \/ \E o \in AuthOutcomes : ScanShell(o)
    \/ DrainCmd
    \/ DrainCmdRaises
    \/ ScanCmd
    \/ Parse
    \/ WaitClosed
    \/ WaitClosedRaises
    \/ Advance
    \/ Wake

Spec == Init /\ [][Next]_vars

----------------------------------------------------------------------------
\* wait_for_prompt on its own, stepped one read at a time.

ScanAlphabet == {"a", "$", "#", ">", " "}
\* The chunks a read can return: any non-empty text.
ScanChunks == SeqsUpTo(ScanAlphabet, MaxBuf) \ {<<>>}

\* The session variables while only the scanner or the parser is exercised.
SessionAt(p, d, c, text, written) ==
    /\ opc = "polling"
    /\ idx = d
    /\ pc = p
    /\ ci = c
    /\ conn = "open"
    /\ result = text
    /\ wlog = written
    /\ parsed = IF c = 0 THEN 0 ELSE c - 1
    /\ pubs = [k \in CmdIdx |-> 0]
    /\ excSeen = FALSE
    /\ outcome = ""
    /\ gauges = [h \in Hosts |-> [k \in CmdIdx |-> NoValue]]
    /\ live = {}

\* A call wait_for_prompt(reader, timeout) has just set buffer and start_time.
InitScan ==
    /\ SessionAt("scanner", 1, 0, <<>>, <<>>)
    /\ \E t \in {AuthTimeout, CommandTimeout} : scan = ScanStart(t)

\* One pass of the loop whose read has outcome ev.
ScanPass1(ev) ==
    /\ pc = "scanner"
    /\ scan.status = "running"
    /\ scan.elapsed < scan.timeout
    /\ scan' = ScanIter(scan, ev)
    /\ UNCHANGED <<opc, idx, pc, ci, conn, result, wlog, parsed, pubs, gauges,
                   excSeen, outcome, live>>

\* reader.read(1024) returns a chunk.
ScanData(chunk, dt) ==
    /\ Len(scan.buffer) + Len(chunk) <= MaxBuf
    /\ ScanPass1(Ev("data", chunk, dt))

\* asyncio.TimeoutError after one second without data: continue.
ScanSilence == ScanPass1(Silence)

\* reader.read(1024) returns the empty string: break.
ScanEof == ScanPass1(Eof)

\* reader.read(1024) raises: the outer except returns "".
ScanError == ScanPass1(ReadError)

\* The loop condition fails: return buffer.
ScanDeadline ==
    /\ pc = "scanner"
    /\ scan.status = "running"
    /\ ~(scan.elapsed < scan.timeout)
    /\ scan' = ScanIter(scan, Silence)
    /\ UNCHANGED <<opc, idx, pc, ci, conn, result, wlog, parsed, pubs, gauges,
                   excSeen, outcome, live>>

NextScan ==
    \/ \E chunk \in ScanChunks, dt \in {0, 1} : ScanData(chunk, dt)
    \/ ScanSilence
    \/ ScanEof
    \/ ScanError
    \/ ScanDeadline

SpecScan == InitScan /\ [][NextScan]_vars

----------------------------------------------------------------------------
\* The response parser on its own: the for loop body on an arbitrary result.

NumAlphabet == {"-", "0", "1", ".", "x"}
NumTexts == SeqsUpTo(NumAlphabet, MaxNumLen)

OnuCodeChars == {"0", "O", "1", "2", "3", "4", "5", "6", "7", "9"}
OnuCodes == SeqsUpTo(OnuCodeChars, 2)
OnuTails == {<<>>, <<"\n", ">", " ">>, <<"\r", "\n", ">", " ">>, <<" ", "\n">>}
OnuTexts == {pre \o OnuMarker \o code \o tail :
                pre \in {<<>>, <<"x", "\n">>}, code \in OnuCodes, tail \in OnuTails}

\* Results that hold two readings.
Decimals == {<<"1",".","0">>, <<"-","0",".","1">>, <<"0",".","1","0">>}
TwoNumberTexts == {a \o <<"x">> \o b : a \in Decimals, b \in Decimals}

ParseTexts == NumTexts \cup OnuTexts \cup TwoNumberTexts

\* What the session has written by the time command c is in flight.
WrittenUpTo(d, c) ==
    <<Line("username", Devices[d].user), Line("password", Devices[d].password)>>
    \o [k \in 1..c |-> Line("command", Commands[k])]

\* execute_telnet_command has returned text as the result of command c.
InitParse ==
    /\ scan = ScanIdle
    /\ \E c \in CmdIdx, text \in ParseTexts :
           SessionAt("parse", 1, c, text, WrittenUpTo(1, c))

NextParse == Parse

SpecParse == InitParse /\ [][NextParse]_vars

----------------------------------------------------------------------------
\* Vocabulary of the properties, stated without the operators of the model.

\* The commands this session has written, in the order written.
CommandsWritten(w) ==
    LET IsCommand(l) == l.what = "command"
    IN  [k \in 1..Len(SelectSeq(w, IsCommand)) |-> SelectSeq(w, IsCommand)[k].text]

\* The fixed table order.
TableOrder == <<"diag pon get transceiver bias-current",
                "diag pon get transceiver rx-power",
                "diag pon get transceiver temperature",
                "diag pon get transceiver tx-power",
                "diag pon get transceiver voltage",
                "diag gpon get onu-state">>

IsPrefix(a, b) == Len(a) <= Len(b) /\ SubSeq(b, 1, Len(a)) = a

\* Two characters that differ at most in case.
SameLetter(a, b) ==
    \/ a = b
    \/ \E k \in 1..26 : {a, b} = {UpperLetters[k], LowerLetters[k]}

\* text contains word, case-insensitively.
Mentions(text, word) ==
    \E s \in 0..(Len(text) - Len(word)) :
        \A k \in 1..Len(word) : SameLetter(text[s + k], word[k])

WordLogin    == <<"l","o","g","i","n",":">>
WordUsername == <<"u","s","e","r","n","a","m","e",":">>
WordPassword == <<"p","a","s","s","w","o","r","d",":">>

\* t is digits "." digits, with a leading "-" allowed when signed.
IsDecimal(t, signed) ==
    \E dot \in 2..(Len(t) - 1) :
        /\ t[dot] = "."
        /\ \A k \in (dot + 1)..Len(t) : t[k] \in Digits
        /\ \/ \A k \in 1..(dot - 1) : t[k] \in Digits
           \/ /\ signed
              /\ t[1] = "-"
              /\ dot > 2
              /\ \A k \in 2..(dot - 1) : t[k] \in Digits

\* Some substring of text matches the pattern of command c.
ParsesSuccessfully(c, text) ==
    IF c = 6 THEN Contains(text, OnuMarker)
    ELSE \E s \in 1..Len(text), e \in 1..Len(text) :
            s <= e /\ IsDecimal(SubSeq(text, s, e), c \in {2, 4})

\* The buffer ends in $, # or >, optionally followed by one space.
IsPromptEnd(b) ==
    LET n == Len(b)
    IN  \/ n >= 1 /\ b[n] \in {"$", "#", ">"}
        \/ n >= 2 /\ b[n] = " " /\ b[n - 1] \in {"$", "#", ">"}

\* The session has just been replaced by the next one (or main went to sleep).
SessionEnds == pc = "done"

----------------------------------------------------------------------------
\* C1: Within one session the commands are written in the fixed table order,
\* and when command i+1 is written the results of commands 1..i have all been
\* parsed; nothing is published for a command once its successor is written.
C1_OrderStep ==
    SessionEnds \/
    LET before == CommandsWritten(wlog)
        after  == CommandsWritten(wlog')
    IN  /\ IsPrefix(after, TableOrder)
        /\ Len(after) # Len(before) =>
              /\ Len(after) = Len(before) + 1
              /\ parsed' = Len(before)
        /\ parsed' \in {parsed, parsed + 1}
        /\ \A c \in CmdIdx : c < Len(before) => pubs'[c] = pubs[c]
        /\ \A c \in CmdIdx : pubs'[c] # pubs[c] => c = Len(before) /\ parsed' = c

\* C1: every step of a session keeps the table order and parses result i
\* before command i+1 is written.
C1_TableOrderParseBeforeNextSend == [][C1_OrderStep]_vars

\* All six commands were written and parsed and a reading was published.
C1_Witness ==
    /\ pc = "wait_closed"
    /\ CommandsWritten(wlog) = TableOrder
    /\ parsed = 6
    /\ \E c \in CmdIdx : pubs[c] = 1

\* C2: A poll attempt that opened a connection has closed it by the time it
\* returns to main, whatever its outcome.
C2_ClosedOnReturn == pc = "done" => conn # "open"

\* C3: After an exception in the session nothing more is written to the
\* connection and nothing more is published in that session.
C3_QuietStep ==
    (excSeen /\ ~SessionEnds) => (wlog' = wlog /\ pubs' = pubs /\ gauges' = gauges)

\* C3: once an exception was raised, no step of the session writes or publishes.
C3_NothingAfterException == [][C3_QuietStep]_vars

\* C4: However the poll of device k ends, main goes on to device k+1 of the
\* sweep, after the last device it sleeps and starts the next sweep at the
\* first device, and no failure ends the loop.
C4_LoopStep ==
    /\ opc' # "crashed"
    /\ outcome' # "crashed"
    /\ (opc = "polling" /\ pc = "done") =>
          IF idx < NumDevices
          THEN opc' = "polling" /\ idx' = idx + 1 /\ pc' = "connect"
          ELSE opc' = "sleeping"
    /\ opc = "sleeping" => (opc' = "polling" /\ idx' = 1 /\ pc' = "connect")
    /\ pc # "done" => idx' = idx \/ opc = "sleeping"

\* C4: every step keeps main in its loop and moves it to the next device.
C4_FailuresNeverStopThePollLoop == [][C4_LoopStep]_vars

\* A poll of a device that is not the last of the sweep has ended in a failure.
C4_Witness ==
    /\ opc = "polling"
    /\ pc = "done"
    /\ idx < NumDevices
    /\ outcome \in {"timeout", "error", "no_login", "no_password"}

\* C5: The username is written only when the first scan mentions login: or
\* username:, the password only when the second scan mentions password:; a
\* session whose prompt is missing closes the connection, writes nothing more,
\* sends no command and publishes nothing.
C5_CredentialStep ==
    /\ (Len(wlog') > Len(wlog) /\ wlog'[Len(wlog')].what = "username") =>
          /\ pc = "check_login"
          /\ wlog = <<>>
          /\ Mentions(result, WordLogin) \/ Mentions(result, WordUsername)
    /\ (Len(wlog') > Len(wlog) /\ wlog'[Len(wlog')].what = "password") =>
          /\ pc = "check_pass"
          /\ Len(wlog) = 1
          /\ Mentions(result, WordPassword)
    /\ (pc = "check_login" /\ ~Mentions(result, WordLogin) /\ ~Mentions(result, WordUsername)) =>
          (pc' = "done" /\ conn' = "closed" /\ wlog' = wlog /\ pubs' = pubs /\ gauges' = gauges)
    /\ (pc = "check_pass" /\ ~Mentions(result, WordPassword)) =>
          (pc' = "done" /\ conn' = "closed" /\ wlog' = wlog /\ pubs' = pubs /\ gauges' = gauges)
    /\ outcome' \in {"no_login", "no_password"} =>
          /\ CommandsWritten(wlog') = <<>>
          /\ \A c \in CmdIdx : pubs'[c] = 0
          /\ \A k \in 1..Len(wlog') : wlog'[k].what # "password"

\* C5: every step writes a credential only after its prompt and closes the
\* session silently when the prompt is missing.
C5_CredentialsOnlyAfterPrompt == [][C5_CredentialStep]_vars

\* The username was sent, no password prompt came, and the session is closed
\* with nothing else written.
C5_Witness ==
    /\ outcome = "no_password"
    /\ conn = "closed"
    /\ Len(wlog) = 1
    /\ wlog[1].what = "username"

\* C6: Parsing the result of command i publishes exactly one observation when
\* the result parses and none when it does not, and in both cases the next
\* command is written (or, after the sixth, the session closes): a session
\* that wrote a command ends only after all six were written and parsed.
C6_ParseStep ==
    /\ pc = "parse" =>
          /\ pubs'[ci] = pubs[ci] + (IF ParsesSuccessfully(ci, result) THEN 1 ELSE 0)
          /\ \A c \in CmdIdx \ {ci} : pubs'[c] = pubs[c]
          /\ parsed' = ci
          /\ IF ci < 6
             THEN pc' = "drain_cmd" /\ CommandsWritten(wlog') = SubSeq(TableOrder, 1, ci + 1)
             ELSE pc' = "wait_closed"
    /\ pc # "parse" => (SessionEnds \/ pubs' = pubs)
    /\ \A c \in CmdIdx : pubs'[c] <= 1
    /\ (pc' = "done" /\ CommandsWritten(wlog') # <<>>) =>
          (parsed' = 6 /\ CommandsWritten(wlog') = TableOrder)

\* C6: every parse publishes one observation on a match and none on a miss,
\* and the remaining commands are run either way.
C6_OneObservationPerSuccessfulParse == [][C6_ParseStep]_vars

\* A command's result did not parse and a later command of the same session
\* published its observation.
C6_Witness ==
    \E c \in CmdIdx, d \in CmdIdx :
        c < d /\ parsed >= d /\ pubs[c] = 0 /\ pubs[d] = 1

\* The text that follows the first `ONU state: ` of text, up to the line end.
CodeAfterMarker(text) ==
    LET n  == Len(OnuMarker)
        At(s) == s + n - 1 <= Len(text) /\ \A k \in 1..n : text[s + k - 1] = OnuMarker[k]
        s0 == CHOOSE s \in 1..Len(text) : At(s) /\ \A t \in 1..(s - 1) : ~At(t)
        b  == s0 + n
        e  == CHOOSE e \in (b - 1)..Len(text) :
                  /\ \A k \in b..e : text[k] # "\n"
                  /\ e = Len(text) \/ text[e + 1] = "\n"
    IN  [code |-> SubSeq(text, b, e), ended |-> e < Len(text)]

\* The series the polled device writes for the ONU state.
OnuSeries(g) == g[Devices[idx].hostname][6]

\* C7 (as claimed): parsing the result of the onu-state command publishes
\* exactly one observation, whatever the result text is.
C7_OnuAlwaysEmits ==
    [][(pc = "parse" /\ ci = 6) => pubs'[6] = pubs[6] + 1]_vars

C7_OnuStep ==
    (pc = "parse" /\ ci = 6) =>
        IF Contains(result, OnuMarker)
        THEN /\ pubs'[6] = pubs[6] + 1
             /\ \E n \in 0..7 : OnuSeries(gauges') = <<n>>
             /\ (\A k \in 1..Len(OnuKeys) : OnuKeys[k] # CodeAfterMarker(result).code)
                    => OnuSeries(gauges') = <<0>>
        ELSE /\ pubs'[6] = pubs[6]
             /\ gauges' = gauges

\* C7 (amended): the onu-state result publishes exactly one observation when
\* it contains the marker `ONU state: `, with ordinal 0 when the code after
\* the marker is no key of the table, and publishes nothing when the marker
\* is absent.
C7_OnuEmitsWhenMarkerPresent == [][C7_OnuStep]_vars

\* An unrecognized code was published as ordinal 0.
C7_Witness ==
    /\ pc = "wait_closed"
    /\ ci = 6
    /\ pubs[6] = 1
    /\ OnuSeries(gauges) = <<0>>

C8_OnuStep ==
    (pc = "parse" /\ ci = 6 /\ Contains(result, OnuMarker)) =>
        LET c == CodeAfterMarker(result)
        IN  /\ \A n \in 1..7 :
                  (c.ended /\ c.code = <<"0", DigitSeq[n + 1]>>) => OnuSeries(gauges') = <<n>>
            /\ (c.ended /\ c.code = <<"9", "9">>) => OnuSeries(gauges') = <<0>>

\* C8: a result with `ONU state: 0n` and a line end publishes ordinal n for
\* every n in 1..7, and a code outside the table (99) publishes 0.
C8_OnuCodesMapToOrdinals == [][C8_OnuStep]_vars

\* C9: while wait_for_prompt is still reading, its buffer does not end in a
\* terminator; when it returns on a terminator it returns the concatenation
\* of the chunks it read, and no shorter run of those chunks ended in one.
C9_ReturnsAtFirstPrompt ==
    /\ scan.status = "running" => ~IsPromptEnd(scan.buffer)
    /\ scan.status = "prompt" =>
          /\ IsPromptEnd(scan.buffer)
          /\ scan.last = "data"
          /\ Returned(scan) = Concat(scan.chunks)
          /\ \A k \in 1..(Len(scan.chunks) - 1) :
                 ~IsPromptEnd(Concat(SubSeq(scan.chunks, 1, k)))

\* The scan returned on its second chunk, which ended in `> `.
C9_Witness ==
    /\ scan.status = "prompt"
    /\ Len(scan.chunks) = 2
    /\ scan.buffer = <<"a", ">", " ">>

C10_ScanStep ==
    /\ scan'.status = "timeout" =>
          /\ scan.status = "running"
          /\ ~(scan.elapsed < scan.timeout)
          /\ Returned(scan') = scan.buffer
          /\ Returned(scan') = Concat(scan'.chunks)
    /\ (scan.status = "running" /\ ~(scan.elapsed < scan.timeout)) =>
          scan'.status = "timeout"
    /\ (scan.status = "running" /\ scan'.last = "silence"
          /\ scan'.elapsed # scan.elapsed) =>
          /\ scan'.buffer = scan.buffer
          /\ scan'.chunks = scan.chunks
          /\ scan'.status = "running"

\* C10: when the timeout has elapsed wait_for_prompt returns the buffer it has
\* accumulated, and a sub-timeout without data leaves the buffer as it is and
\* the call in its loop.
C10_TimeoutReturnsPartialBuffer == [][C10_ScanStep]_vars

\* The scan timed out after reading a chunk and sitting through silences.
C10_Witness ==
    /\ scan.status = "timeout"
    /\ scan.chunks # <<>>
    /\ scan.last = "silence"

----------------------------------------------------------------------------
\* C11

C11_EofStep ==
    (scan.status = "running" /\ scan'.last = "eof" /\ scan' # scan) =>
        /\ scan'.status # "running"
        /\ scan'.elapsed = scan.elapsed
        /\ Returned(scan') = Concat(scan.chunks)

\* C11: a read that reports EOF ends the wait_for_prompt call in that very
\* pass, with no further waiting, and the call returns everything read before
\* the EOF.
C11_EofStopsAndReturnsCaptured == [][C11_EofStep]_vars

\* An EOF has ended a call that had read something, with budget left.
C11_Witness ==
    /\ scan.status = "eof"
    /\ scan.chunks # <<>>
    /\ scan.elapsed < scan.timeout

----------------------------------------------------------------------------
\* C12

\* The series the polls of descriptor d write: one per metric, labelled with
\* the address of d.
SeriesOf(g, d) == g[Devices[d].hostname]

\* C12: a step of the poll of descriptor idx changes no series that the polls
\* of another configured descriptor write.
C12_NoCrossDeviceWrite ==
    [][\A b \in 1..NumDevices :
          b # idx => SeriesOf(gauges', b) = SeriesOf(gauges, b)]_vars

----------------------------------------------------------------------------
\* C13

\* C13: a connection is opened only when no connection opened earlier, by any
\* session of any sweep, is still open.
C13_OneConnectionAtATime ==
    [][(conn' = "open" /\ conn # "open") => conn # "unclosed"]_vars

----------------------------------------------------------------------------
\* C14

\* The steps the code itself bounds: the connection open (wait_for, 15 s), the
\* scans (the loop of wait_for_prompt ends with its timeout), and the code that
\* runs between two awaits. `await writer.drain()` and
\* `await writer.wait_closed()` carry no timeout and are not among them: they
\* return, or raise, when the transport lets them.
Bounded ==
    \/ Connect
    \/ \E e \in {"TimeoutError", "OSError"} : ConnectFails(e)
    \/ \E o \in AuthOutcomes : ScanLogin(o)
    \/ SendUsername
    \/ NoLoginPrompt
    \/ \E o \in AuthOutcomes : ScanPass(o)
    \/ SendPassword
    \/ NoPasswordPrompt
    \/ \E o \in AuthOutcomes : ScanShell(o)
    \/ ScanCmd
    \/ Parse
    \/ Advance
    \/ Wake

\* The program with the progress its timeouts and its scheduling guarantee.
SpecFair == Spec /\ WF_vars(Bounded)

----------------------------------------------------------------------------
\* C15

\* The leftmost substring of text that is a decimal number (signed where the
\* command's pattern allows a sign), taken as far as the pattern reaches.
FirstDecimal(text, signed) ==
    LET spans == {sp \in (1..Len(text)) \X (1..Len(text)) :
                     sp[1] <= sp[2] /\ IsDecimal(SubSeq(text, sp[1], sp[2]), signed)}
        s0    == Min({sp[1] : sp \in spans})
        e0    == Max({sp[2] : sp \in {q \in spans : q[1] = s0}})
    IN  SubSeq(text, s0, e0)

C15_NumericStep ==
    (pc = "parse" /\ ci \in 1..5 /\ ParsesSuccessfully(ci, result) /\ parsed' = parsed + 1) =>
        gauges'[Devices[idx].hostname][ci] = <<Float(FirstDecimal(result, ci \in {2, 4}))>>

\* C15: for the five numeric commands, when the response holds a match of the
\* command's pattern, the value published is the number its leftmost match
\* denotes, whatever follows that match.
C15_FirstMatchIsPublished == [][C15_NumericStep]_vars

\* bias-current was published as 10.1 from a response in which 0.1 matches
\* the pattern too, further right.
C15_Witness ==
    /\ pc # "parse"
    /\ parsed = 1
    /\ gauges[Devices[idx].hostname][1] = <<Float(<<"1","0",".","1">>)>>

----------------------------------------------------------------------------
\* C16

\* The session is at the drain that follows a write / at the scan that follows
\* a drain.
AtDrain(p) == p \in {"drain_user", "drain_pass", "drain_cmd"}
AtScan(p) == p \in {"scan_pass", "scan_shell", "scan_cmd"}

C16_FlushStep ==
    /\ (Len(wlog') > Len(wlog)) => (~AtDrain(pc) /\ AtDrain(pc'))
    /\ (AtDrain(pc) /\ pc' # pc) => (AtScan(pc') \/ pc' = "done")

\* C16: a write is followed by its drain, and the drain by the scan for that
\* write (or by the end of the session); the next write comes only after that
\* scan has returned.
C16_WriteDrainScan == [][C16_FlushStep]_vars

----------------------------------------------------------------------------
\* C17

C17_ConnectStep ==
    /\ (pc = "connect" /\ pc' # "connect" /\ conn' # "open") =>
          /\ pc' = "done"
          /\ outcome' \in {"timeout", "error"}
          /\ wlog' = <<>>
          /\ parsed' = 0
          /\ pubs' = [c \in CmdIdx |-> 0]
          /\ gauges' = gauges
    /\ (pc' = "connect" /\ pc # "connect") =>
          \/ opc = "polling" /\ pc = "done" /\ idx' = idx + 1
          \/ opc = "sleeping" /\ idx' = 1
    /\ (opc = "polling" /\ opc' = "sleeping") => idx = NumDevices

\* C17: a connection open that fails ends the attempt at once, with nothing
\* scanned, written or published, and a new attempt is only ever made for the
\* next device of the sweep or, after the sleep, for the first device of the
\* next sweep.
C17_FailedOpenEndsAttemptNoRetry == [][C17_ConnectStep]_vars

\* The open for the second device has failed.
C17_Witness ==
    /\ pc = "done"
    /\ idx = 2
    /\ outcome \in {"timeout", "error"}
    /\ conn \in {"none", "unclosed"}
    /\ wlog = <<>>

----------------------------------------------------------------------------
\* C18

\* The session is sending commands.
InCommands(p) == p \in {"drain_cmd", "scan_cmd", "parse"}

C18_ShellStep ==
    /\ (pc = "drain_pass" /\ pc' # pc) => pc' \in {"scan_shell", "done"}
    /\ (pc = "scan_shell" /\ pc' # pc) =>
          /\ pc' = "drain_cmd"
          /\ wlog' = Append(wlog, [what |-> "command", text |-> TableOrder[1]])
    /\ (InCommands(pc) /\ ~InCommands(pc')) =>
          /\ pc' = "wait_closed"
          /\ CommandsWritten(wlog') = TableOrder

\* C18: after the password there is one scan, and whatever that scan returns
\* the first command is written next and the session does not leave the
\* command loop before all six commands have been written.
C18_CommandsWhateverTheShellScan == [][C18_ShellStep]_vars

\* The first session is sending its first command although its third scan
\* ended in the except clause of wait_for_prompt and returned "".
C18_Witness ==
    /\ pc = "drain_cmd"
    /\ ci = 1
    /\ excSeen
    /\ Len(wlog) = 3

----------------------------------------------------------------------------
\* A session in which the answer to one command is still unread when the scan
\* for the next command starts.

\* What the scan for command c can return when the device's answer to command
\* c - 1 has not been read yet: nothing on the stream separates that answer
\* from the answer to c.
LateOutcomes ==
    [c \in 2..NumCommands |->
        ScanOutcomes(CommonTexts \cup Readings(c - 1), CommandTimeout)]

\* response = await wait_for_prompt(reader, timeout) for command ci, reading
\* what the device sent in answer to command ci - 1: that command's own scan
\* returned without it (at its timeout, or at a chunk that ended in a prompt
\* character) and published nothing.
ScanCmdLate ==
    /\ pc = "scan_cmd"
    /\ ci > 1
    /\ (ci - 1) \in live
    /\ pubs[ci - 1] = 0
    /\ ~excSeen
    /\ \E o \in LateOutcomes[ci] : ScanReturns(o)
    /\ pc' = "parse"
    /\ UNCHANGED <<opc, idx, ci, conn, wlog, parsed, pubs, gauges, outcome, live, scan>>

\* Command c + 1 has been written and flushed; the scan for command c has
\* returned without the answer to c, which the device has yet to deliver.
InitLate ==
    \E d \in 1..NumDevices, c \in 1..(NumCommands - 1) :
        /\ opc = "polling"
        /\ idx = d
        /\ pc = "scan_cmd"
        /\ ci = c + 1
        /\ conn = "open"
        /\ result = <<>>
        /\ wlog = WrittenUpTo(d, c + 1)
        /\ parsed = c
        /\ pubs = [k \in CmdIdx |-> 0]
        /\ excSeen = FALSE
        /\ outcome = ""
        /\ gauges = [h \in Hosts |-> [k \in CmdIdx |-> NoValue]]
        /\ live = {c}
        /\ scan = ScanIdle

NextLate ==
    \/ ScanCmdLate
    \/ ScanCmd
    \/ DrainCmd
    \/ DrainCmdRaises
    \/ Parse
    \/ WaitClosed
    \/ WaitClosedRaises

SpecLate == InitLate /\ [][NextLate]_vars

----------------------------------------------------------------------------
\* C19

\* C19: an observation is published for a command only from output the device
\* produced in answer to that command.
C19_PublishedOnlyFromOwnAnswer ==
    [][(pc = "parse" /\ pubs'[ci] > pubs[ci]) => ci \in live]_vars

----------------------------------------------------------------------------
\* C20

C20_SeriesStep ==
    \A h \in Hosts, c \in CmdIdx :
        (gauges'[h][c] # gauges[h][c]) =>
            /\ pc = "parse"
            /\ c = ci
            /\ h = Devices[idx].hostname
            /\ ParsesSuccessfully(ci, result)
            /\ gauges'[h][c] # NoValue

\* C20: a series changes only in the parse step of a command whose response
\* parses, and only to a value; a session that ends early and a response that
\* does not parse leave every series as it was.
C20_FailuresLeaveSeriesAlone == [][C20_SeriesStep]_vars

\* A poll of an address has ended without running a command while a series of
\* that address holds the value of an earlier successful parse.
C20_Witness ==
    /\ pc = "done"
    /\ outcome \in {"timeout", "error", "no_login", "no_password"}
    /\ parsed = 0
    /\ \E c \in CmdIdx : gauges[Devices[idx].hostname][c] # NoValue

====
